---- MODULE Spec2Model ----
(***************************************************************************)
(* Model of the dispatch pipeline of src/src/main.rs: a work queue of      *)
(* tasks (todos), a registry of suspended continuations keyed by token     *)
(* (pending_tasks) and the transaction context (ctx), driven by            *)
(* Pipeline::eval, Pipeline::digest, the host changing the phase, and the  *)
(* pipeline being dropped.                                                 *)
(***************************************************************************)
EXTENDS Integers, Sequences, FiniteSets, TLC

(***************************************************************************)
(* Bounds of the model.                                                    *)
(***************************************************************************)
\* total number of task nodes (tasks and nested follow-ups) in the initial queue
MaxNodes == 3
\* number of values initially in ctx.test_predicate_values
MaxPreds == 2
\* number of predicate values in the runs of two staggered tasks
MaxStaggerPreds == 4

(***************************************************************************)
(* Option<T>: None is the empty sequence, Some(x) the one-element one.     *)
(***************************************************************************)
None == <<>>
Some(x) == <<x>>

(***************************************************************************)
(* Data.                                                                   *)
(***************************************************************************)
Phase == {"RequestHeaders", "RequestBody", "ResponseHeaders", "ResponseBody"}

\* position of an Option<Phase> in the transaction's progression
PhaseOrd(p) ==
  IF p = None THEN 0
  ELSE CASE p[1] = "RequestHeaders" -> 1
         [] p[1] = "RequestBody" -> 2
         [] p[1] = "ResponseHeaders" -> 3
         [] p[1] = "ResponseBody" -> 4

PendingValue == {"Resolved_true", "Resolved_false", "Pending"}

\* the header list of the mutate-response task of tests::it_not_rate_limits
RateLimitHeaders == << <<"X-RateLimit-Limit", "10">> >>

\* a second header list, for pipelines that hold two mutate-response tasks
RemainingHeaders == << <<"X-RateLimit-Remaining", "9">> >>

TooManyRequestsTask == [kind |-> "TooManyRequestsTask"]
AddResponseHeadersTask(h) == [kind |-> "AddResponseHeadersTask", headers |-> h]
RLTask(allow, deny) == [kind |-> "RLTask", allow_task |-> allow, deny_task |-> deny]
PendingTask(blocking, allow, deny) ==
  [is_blocking |-> blocking, allow_task |-> allow, deny_task |-> deny]

\* the tasks that hold no follow-up
LeafTasks == {TooManyRequestsTask, AddResponseHeadersTask(RateLimitHeaders)}

\* the mutate-response tasks, one for each header list
HeaderTasks == {AddResponseHeadersTask(RateLimitHeaders), AddResponseHeadersTask(RemainingHeaders)}

\* the tasks made of exactly n task nodes, with leaves from L
RECURSIVE TasksOfSize(_, _)
TasksOfSize(L, n) ==
  IF n = 1 THEN L
  ELSE {RLTask(None, d) : d \in TasksOfSize(L, n - 1)}
       \cup UNION { {RLTask(Some(a), d) : a \in TasksOfSize(L, i), d \in TasksOfSize(L, n - 1 - i)}
                    : i \in 1..(n - 2) }

\* the work queues made of exactly n task nodes, with leaves from L
RECURSIVE QueuesOfSize(_, _)
QueuesOfSize(L, n) ==
  IF n = 0 THEN {<<>>}
  ELSE UNION { {<<t>> \o q : t \in TasksOfSize(L, i), q \in QueuesOfSize(L, n - i)} : i \in 1..n }

\* the work queues made of at most n task nodes
QueuesUpTo(L, n) == UNION {QueuesOfSize(L, k) : k \in 0..n}

\* the sequences over S of length at most n
RECURSIVE SeqsUpTo(_, _)
SeqsUpTo(S, n) ==
  IF n = 0 THEN {<<>>}
  ELSE SeqsUpTo(S, n - 1) \cup {Append(s, v) : s \in {q \in SeqsUpTo(S, n - 1) : Len(q) = n - 1}, v \in S}

\* the response buffers handed to digest: those of the tests (empty, and the
\* single byte 1) and one whose last byte is not 1
Responses == {<<>>, <<1>>, <<1, 0>>}

(***************************************************************************)
(* State.                                                                  *)
(***************************************************************************)
VARIABLES
  ctx,            \* Pipeline.ctx : ReqRespCtx
  todos,          \* Pipeline.todos
  pending_tasks,  \* Pipeline.pending_tasks, a function from token to PendingTask
  pipeline,       \* "live", or "gone" once the value has been dropped
  fault,          \* the panic that ended the run, "none" while there is none
  todos0,         \* history: the work queue the pipeline was built with
  preds0,         \* history: the predicate values the context was built with
  issued,         \* history: the tokens returned by dispatch, in order
  resolved,       \* history: the tokens whose continuation has been run, in order
  last            \* history: the last operation, what it did and, for eval and
                  \* digest, the context it started from

vars == <<ctx, todos, pending_tasks, pipeline, fault, todos0, preds0, issued, resolved, last>>

(***************************************************************************)
(* ReqRespCtx and FakeService.                                             *)
(***************************************************************************)
\* variant: the counter is not advanced
next_token_id_Stuck(c) == [c EXCEPT !.test_token_id = IF @ = 0 THEN 1 ELSE @]

\* ReqRespCtx::next_token_id: the context after the call; the token is its counter
next_token_id(c) == [c EXCEPT !.test_token_id = @ + 1]

\* variant: two tokens are drawn for one call
dispatch_Twice(c) ==
  LET c2 == next_token_id(next_token_id(c)) IN [ctx |-> c2, token |-> c2.test_token_id]

\* FakeService::dispatch
dispatch(c) == LET c2 == next_token_id(c) IN [ctx |-> c2, token |-> c2.test_token_id]

\* FakeService::parse_message: the last byte of the message is 1
parse_message(message) == message # <<>> /\ message[Len(message)] = 1

(***************************************************************************)
(* Task::apply for the three kinds of task.  The result is the outcome,    *)
(* the context after the attempt and the outcome's payload.                *)
(***************************************************************************)
Outcome(o, c, tok, pt, t) == [outcome |-> o, ctx |-> c, token |-> tok, pending |-> pt, task |-> t]

\* variant: the task sets the status and asks to be retried
ApplyTooManyRequests_Requeued(task, c) ==
  Outcome("Pending", [c EXCEPT !.status_code = Some(429)], 0, None, Some(task))

\* variant: the task waits for a phase to be set
ApplyTooManyRequests_Gated(task, c) ==
  IF c.test_current_phase = None
  THEN Outcome("Pending", c, 0, None, Some(task))
  ELSE Outcome("Done", [c EXCEPT !.status_code = Some(429)], 0, None, None)

\* TooManyRequestsTask::apply
ApplyTooManyRequests(task, c) ==
  Outcome("Done", [c EXCEPT !.status_code = Some(429)], 0, None, None)

\* variant: a task attempted in another phase is discharged without effect
ApplyAddResponseHeaders_Dropping(task, c) ==
  IF c.test_current_phase = Some("ResponseHeaders")
  THEN Outcome("Done", [c EXCEPT !.response_headers = task.headers], 0, None, None)
  ELSE Outcome("Done", c, 0, None, None)

\* variant: the task applies itself from ResponseHeaders on
ApplyAddResponseHeaders_FromPhase(task, c) ==
  IF PhaseOrd(c.test_current_phase) >= PhaseOrd(Some("ResponseHeaders"))
  THEN Outcome("Done", [c EXCEPT !.response_headers = task.headers], 0, None, None)
  ELSE Outcome("Pending", c, 0, None, Some(task))

\* AddResponseHeadersTask::apply
ApplyAddResponseHeaders(task, c) ==
  IF c.test_current_phase = Some("ResponseHeaders")
  THEN Outcome("Done", [c EXCEPT !.response_headers = task.headers], 0, None, None)
  ELSE Outcome("Pending", c, 0, None, Some(task))

\* variant: the call is dispatched whatever the predicate resolved to
ApplyRL_AnyResolved(task, c) ==
  IF c.test_predicate_values = <<>>
  THEN Outcome("Panic", c, 0, None, None)
  ELSE LET n == Len(c.test_predicate_values)
           v == c.test_predicate_values[n]
           c1 == [c EXCEPT !.test_predicate_values = SubSeq(@, 1, n - 1)]
       IN CASE v \in {"Resolved_true", "Resolved_false"} ->
                 LET d == dispatch(c1)
                 IN Outcome("Deferred", d.ctx, d.token,
                            Some(PendingTask(TRUE, task.allow_task, task.deny_task)), None)
            [] v = "Pending" -> Outcome("Pending", c1, 0, None, Some(task))

\* variant: the continuation is registered as non-blocking
ApplyRL_NonBlocking(task, c) ==
  IF c.test_predicate_values = <<>>
  THEN Outcome("Panic", c, 0, None, None)
  ELSE LET n == Len(c.test_predicate_values)
           v == c.test_predicate_values[n]
           c1 == [c EXCEPT !.test_predicate_values = SubSeq(@, 1, n - 1)]
       IN CASE v = "Resolved_true" ->
                 LET d == dispatch(c1)
                 IN Outcome("Deferred", d.ctx, d.token,
                            Some(PendingTask(FALSE, task.allow_task, task.deny_task)), None)
            [] v = "Resolved_false" -> Outcome("Done", c1, 0, None, None)
            [] v = "Pending" -> Outcome("Pending", c1, 0, None, Some(task))

\* RLTask::apply, with Predicate::eval and ReqRespCtx::test_pop_predicate_value
ApplyRL(task, c) ==
  IF c.test_predicate_values = <<>>
  THEN Outcome("Panic", c, 0, None, None)
  ELSE LET n == Len(c.test_predicate_values)
           v == c.test_predicate_values[n]
           c1 == [c EXCEPT !.test_predicate_values = SubSeq(@, 1, n - 1)]
       IN CASE v = "Resolved_true" ->
                 LET d == dispatch(c1)
                 IN Outcome("Deferred", d.ctx, d.token,
                            Some(PendingTask(TRUE, task.allow_task, task.deny_task)), None)
            [] v = "Resolved_false" -> Outcome("Done", c1, 0, None, None)
            [] v = "Pending" -> Outcome("Pending", c1, 0, None, Some(task))

\* Task::apply, dispatched on the kind of task
Apply(task, c) ==
  CASE task.kind = "TooManyRequestsTask" -> ApplyTooManyRequests(task, c)
    [] task.kind = "AddResponseHeadersTask" -> ApplyAddResponseHeaders(task, c)
    [] task.kind = "RLTask" -> ApplyRL(task, c)

(***************************************************************************)
(* PendingTask.                                                            *)
(***************************************************************************)
\* variant: the verdict is read the wrong way round
process_response_Inverted(pending, response) ==
  IF ~parse_message(response) THEN Some(pending.deny_task)
  ELSE IF pending.allow_task # None THEN Some(pending.allow_task[1])
  ELSE None

\* variant: the allow follow-up, when there is one, is taken before the verdict is read
process_response_AllowFirst(pending, response) ==
  IF pending.allow_task # None THEN Some(pending.allow_task[1])
  ELSE IF parse_message(response) THEN Some(pending.deny_task)
  ELSE None

\* PendingTask::process_response
process_response(pending, response) ==
  IF parse_message(response) THEN Some(pending.deny_task)
  ELSE IF pending.allow_task # None THEN Some(pending.allow_task[1])
  ELSE None

\* PendingTask::is_blocking
is_blocking(pending) == pending.is_blocking

(***************************************************************************)
(* Pipeline.                                                               *)
(***************************************************************************)
\* BTreeMap::insert
MapInsert(m, k, v) == [x \in DOMAIN m \cup {k} |-> IF x = k THEN v ELSE m[x]]
\* variant: the entry is read and left in the map
MapRemove_Keep(m, k) == m

\* variant: the whole map is emptied
MapRemove_Clear(m, k) == [x \in {} |-> m[x]]

\* BTreeMap::remove
MapRemove(m, k) == [x \in DOMAIN m \ {k} |-> m[x]]

\* variant: all() where the code has any()
IsBlockedIn_All(m) == \A t \in DOMAIN m : is_blocking(m[t])

\* Pipeline::is_blocked on a registry
IsBlockedIn(m) == \E t \in DOMAIN m : is_blocking(m[t])
is_blocked == IsBlockedIn(pending_tasks)

\* variant: a Pending task is put at the head of the queue
Route_PushFront(r, st) ==
  CASE r.outcome = "Panic" ->
         [st EXCEPT !.ctx = r.ctx, !.fault = "expected_value"]
    [] r.outcome = "Done" ->
         [st EXCEPT !.ctx = r.ctx]
    [] r.outcome = "Deferred" ->
         [st EXCEPT !.ctx = r.ctx,
                    !.issued = Append(@, r.token),
                    !.pending_tasks = MapInsert(@, r.token, r.pending[1]),
                    !.fault = IF r.token \in DOMAIN st.pending_tasks
                              THEN "duplicate_token" ELSE "none"]
    [] r.outcome = "Pending" ->
         [st EXCEPT !.ctx = r.ctx, !.todos = <<r.task[1]>> \o @]

\* routing of one outcome, as the match arms of eval and digest do it; st is
\* the pipeline being worked on: ctx, pending_tasks, the queue Pending tasks
\* are pushed to, the tokens issued and the panic, if any
Route(r, st) ==
  CASE r.outcome = "Panic" ->
         [st EXCEPT !.ctx = r.ctx, !.fault = "expected_value"]
    [] r.outcome = "Done" ->
         [st EXCEPT !.ctx = r.ctx]
    [] r.outcome = "Deferred" ->
         [st EXCEPT !.ctx = r.ctx,
                    !.issued = Append(@, r.token),
                    !.pending_tasks = MapInsert(@, r.token, r.pending[1]),
                    !.fault = IF r.token \in DOMAIN st.pending_tasks
                              THEN "duplicate_token" ELSE "none"]
    [] r.outcome = "Pending" ->
         [st EXCEPT !.ctx = r.ctx, !.todos = Append(@, r.task[1])]

\* the loop of Pipeline::eval over the drained queue; it stops at a panic.
\* st.attempted is the log of the tasks apply was called on, in order
RECURSIVE EvalLoop(_, _)
EvalLoop(ts, st) ==
  IF ts = <<>> THEN st
  ELSE LET st1 == [st EXCEPT !.attempted = Append(@, Head(ts))]
           st2 == Route(Apply(Head(ts), st.ctx), st1)
       IN IF st2.fault # "none" THEN st2 ELSE EvalLoop(Tail(ts), st2)

\* variant: the pipeline is given up as soon as the queue or the registry is empty
EvalPass_EitherEmpty(c, ts, m, iss) ==
  LET st == EvalLoop(ts, [ctx |-> c, pending_tasks |-> m, todos |-> <<>>,
                          issued |-> iss, fault |-> "none", attempted |-> <<>>])
  IN [st EXCEPT !.todos = IF st.fault # "none" THEN <<>> ELSE @] @@
     [result |-> IF st.fault # "none" THEN "Panic"
                 ELSE IF DOMAIN st.pending_tasks = {} \/ st.todos = <<>> THEN "None"
                 ELSE "Some"]

\* variant: the pipeline is given up when the queue is empty, outstanding calls or not
EvalPass_QueueOnly(c, ts, m, iss) ==
  LET st == EvalLoop(ts, [ctx |-> c, pending_tasks |-> m, todos |-> <<>>,
                          issued |-> iss, fault |-> "none", attempted |-> <<>>])
  IN [st EXCEPT !.todos = IF st.fault # "none" THEN <<>> ELSE @] @@
     [result |-> IF st.fault # "none" THEN "Panic"
                 ELSE IF st.todos = <<>> THEN "None"
                 ELSE "Some"]

\* Pipeline::eval as a function of the pipeline's fields
EvalPass(c, ts, m, iss) ==
  LET st == EvalLoop(ts, [ctx |-> c, pending_tasks |-> m, todos |-> <<>>,
                          issued |-> iss, fault |-> "none", attempted |-> <<>>])
  IN [st EXCEPT !.todos = IF st.fault # "none" THEN <<>> ELSE @] @@
     [result |-> IF st.fault # "none" THEN "Panic"
                 ELSE IF DOMAIN st.pending_tasks = {} /\ st.todos = <<>> THEN "None"
                 ELSE "Some"]

\* the record of an operation op that started from the context c
Last(op, c) ==
  [op |-> op, result |-> "-", token |-> 0, verdict |-> FALSE, followup |-> None, ctx |-> c,
   attempted |-> <<>>]

\* Pipeline::eval
Eval ==
  /\ pipeline = "live" /\ fault = "none"
  /\ LET r == EvalPass(ctx, todos, pending_tasks, issued)
     IN /\ ctx' = r.ctx
        /\ todos' = r.todos
        /\ pending_tasks' = r.pending_tasks
        /\ issued' = r.issued
        /\ fault' = r.fault
        /\ pipeline' = IF r.result = "None" THEN "gone" ELSE "live"
        /\ last' = [Last("eval", ctx) EXCEPT !.result = r.result, !.attempted = r.attempted]
  /\ UNCHANGED <<todos0, preds0, resolved>>

\* variant: a response for an unknown token is ignored
DigestCall_Lenient(c, ts, m, iss, token_id, response) ==
  IF token_id \notin DOMAIN m
  THEN [ctx |-> c, pending_tasks |-> m, todos |-> ts, issued |-> iss,
        fault |-> "none", followup |-> None, result |-> "NoTask"]
  ELSE LET action == process_response(m[token_id], response)
           st == [ctx |-> c, pending_tasks |-> MapRemove(m, token_id), todos |-> ts,
                  issued |-> iss, fault |-> "none"]
       IN IF action = None
          THEN st @@ [followup |-> None, result |-> "NoTask"]
          ELSE LET r == Apply(action[1], c)
               IN Route(r, st) @@ [followup |-> action, result |-> r.outcome]

\* variant: the follow-up is queued for the next pass instead of being attempted
DigestCall_Queued(c, ts, m, iss, token_id, response) ==
  IF token_id \notin DOMAIN m
  THEN [ctx |-> c, pending_tasks |-> m, todos |-> ts, issued |-> iss,
        fault |-> "token_not_found", followup |-> None, result |-> "Panic"]
  ELSE LET action == process_response(m[token_id], response)
           st == [ctx |-> c, pending_tasks |-> MapRemove(m, token_id), todos |-> ts,
                  issued |-> iss, fault |-> "none"]
       IN IF action = None
          THEN st @@ [followup |-> None, result |-> "NoTask"]
          ELSE [st EXCEPT !.todos = Append(@, action[1])]
                 @@ [followup |-> action, result |-> "Pending"]

\* Pipeline::digest as a function of the pipeline's fields
DigestCall(c, ts, m, iss, token_id, response) ==
  IF token_id \notin DOMAIN m
  THEN [ctx |-> c, pending_tasks |-> m, todos |-> ts, issued |-> iss,
        fault |-> "token_not_found", followup |-> None, result |-> "Panic"]
  ELSE LET action == process_response(m[token_id], response)
           st == [ctx |-> c, pending_tasks |-> MapRemove(m, token_id), todos |-> ts,
                  issued |-> iss, fault |-> "none"]
       IN IF action = None
          THEN st @@ [followup |-> None, result |-> "NoTask"]
          ELSE LET r == Apply(action[1], c)
               IN Route(r, st) @@ [followup |-> action, result |-> r.outcome]

\* Pipeline::digest
Digest(token_id, response) ==
  /\ pipeline = "live" /\ fault = "none"
  /\ LET r == DigestCall(ctx, todos, pending_tasks, issued, token_id, response)
     IN /\ ctx' = r.ctx
        /\ todos' = r.todos
        /\ pending_tasks' = r.pending_tasks
        /\ issued' = r.issued
        /\ fault' = r.fault
        /\ resolved' = IF token_id \in DOMAIN pending_tasks
                       THEN Append(resolved, token_id) ELSE resolved
        /\ last' = [Last("digest", ctx) EXCEPT
                      !.result = r.result,
                      !.token = token_id,
                      !.verdict = token_id \in DOMAIN pending_tasks /\ parse_message(response),
                      !.followup = r.followup,
                      !.attempted = IF r.followup = None THEN <<>> ELSE <<r.followup[1]>>]
  /\ UNCHANGED <<pipeline, todos0, preds0>>

\* the host moves the transaction to a later phase (rc.replace in the tests)
SetPhase(p) ==
  /\ pipeline = "live" /\ fault = "none"
  /\ PhaseOrd(Some(p)) > PhaseOrd(ctx.test_current_phase)
  /\ ctx' = [ctx EXCEPT !.test_current_phase = Some(p)]
  /\ last' = Last("phase", ctx')
  /\ UNCHANGED <<todos, pending_tasks, pipeline, fault, todos0, preds0, issued, resolved>>

\* variant: only the work queue is looked at
Drop_QueueOnly ==
  /\ pipeline = "live" /\ fault = "none"
  /\ pipeline' = "gone"
  /\ fault' = IF todos # <<>> THEN "dropped_with_pending" ELSE "none"
  /\ last' = Last("drop", ctx)
  /\ UNCHANGED <<ctx, todos, pending_tasks, todos0, preds0, issued, resolved>>

\* Drop for Pipeline
Drop ==
  /\ pipeline = "live" /\ fault = "none"
  /\ pipeline' = "gone"
  /\ fault' = IF todos # <<>> \/ DOMAIN pending_tasks # {}
              THEN "dropped_with_pending" ELSE "none"
  /\ last' = Last("drop", ctx)
  /\ UNCHANGED <<ctx, todos, pending_tasks, todos0, preds0, issued, resolved>>

\* ReqRespCtx::default() with the phase cell and the predicate values the
\* caller gave it before building the pipeline
NewCtx(phase, preds) ==
  [test_token_id |-> 0,
   test_current_phase |-> phase,
   test_predicate_values |-> preds,
   status_code |-> None,
   response_headers |-> <<>>]

EmptyMap == [x \in {} |-> None]

\* the phases a pipeline is built in: unset (tests::it_rate_limits) or
\* RequestHeaders (tests::it_not_rate_limits, tests::it_token_rate_limits)
InitialPhases == {None, Some("RequestHeaders")}

\* a pipeline built with a queue of Q and predicate values of P
InitWith(Q, P) ==
  /\ todos \in Q
  /\ todos0 = todos
  /\ preds0 \in P
  /\ ctx \in {NewCtx(phase, preds0) : phase \in InitialPhases}
  /\ pending_tasks = EmptyMap
  /\ pipeline = "live"
  /\ fault = "none"
  /\ issued = <<>>
  /\ resolved = <<>>
  /\ last = Last("new", ctx)

\* the tokens handed to digest: those issued so far, and 0, which never is
TokenIds == 0..ctx.test_token_id

\* the queues of tests::it_token_rate_limits: two conditional-dispatch tasks
\* with no allow follow-up
TwoTaskQueues ==
  {<<t1, t2>> : t1 \in TasksOfSize(LeafTasks, 2), t2 \in TasksOfSize(LeafTasks, 2)}

Init ==
  InitWith(QueuesUpTo(LeafTasks, MaxNodes) \cup TwoTaskQueues,
           SeqsUpTo(PendingValue, MaxPreds))

Next ==
  \/ Eval
  \/ \E token_id \in TokenIds, response \in Responses : Digest(token_id, response)
  \/ \E p \in Phase : SetPhase(p)
  \/ Drop

Spec == Init /\ [][Next]_vars

\* tests::it_token_rate_limits: two conditional-dispatch tasks queued together,
\* with predicate values that resolve true or are Pending
InitStaggered ==
  InitWith(TwoTaskQueues, SeqsUpTo({"Resolved_true", "Pending"}, MaxStaggerPreds))

SpecStaggered == InitStaggered /\ [][Next]_vars

\* pipelines whose leaves are mutate-response tasks with different header lists
InitHeaders ==
  InitWith(QueuesUpTo(HeaderTasks, MaxNodes), SeqsUpTo(PendingValue, MaxPreds))

SpecHeaders == InitHeaders /\ [][Next]_vars

(***************************************************************************)
(* The host of one transaction, as the tests drive the pipeline: it sets   *)
(* the phases in order and calls eval() once in each, hands every issued   *)
(* token to digest() once, between passes, and drops the pipeline when the *)
(* last phase has had its pass and no call is outstanding.                 *)
(***************************************************************************)
\* the phase that was set has not had its eval() pass
EvalDue ==
  \/ last.op = "phase"
  \/ last.op = "new" /\ ctx.test_current_phase # None

HostPhase ==
  /\ ~EvalDue
  /\ \E p \in Phase :
       /\ PhaseOrd(Some(p)) = PhaseOrd(ctx.test_current_phase) + 1
       /\ SetPhase(p)

HostEval == EvalDue /\ Eval

HostDigest ==
  /\ ~EvalDue
  /\ \E token_id \in DOMAIN pending_tasks, response \in Responses : Digest(token_id, response)

HostDrop ==
  /\ ~EvalDue
  /\ ctx.test_current_phase = Some("ResponseBody")
  /\ DOMAIN pending_tasks = {}
  /\ Drop

HostNext == HostPhase \/ HostEval \/ HostDigest \/ HostDrop

\* the pipelines of Init, and those with predicate values enough for a task
\* to stay Pending over the passes of several phases
InitHost ==
  InitWith(QueuesUpTo(LeafTasks, MaxNodes) \cup TwoTaskQueues,
           SeqsUpTo(PendingValue, MaxPreds)
             \cup SeqsUpTo({"Resolved_true", "Pending"}, MaxStaggerPreds))

\* the host never stops while it has a phase, a pass, a response or the
\* teardown left to deliver
SpecHost == InitHost /\ [][HostNext]_vars /\ WF_vars(HostNext)

TypeOK ==
  /\ pipeline \in {"live", "gone"}
  /\ fault \in {"none", "expected_value", "duplicate_token", "token_not_found", "dropped_with_pending"}
  /\ ctx.test_token_id \in Nat
  /\ DOMAIN pending_tasks \subseteq 1..ctx.test_token_id

(***************************************************************************)
(* Vocabulary of the properties.                                           *)
(***************************************************************************)
Range(q) == {q[i] : i \in DOMAIN q}

IsAddResponseHeaders(t) == t.kind = "AddResponseHeadersTask"
IsRL(t) == t.kind = "RLTask"

\* the predicate values an operation popped, in the order it popped them
Popped(before, after) ==
  [i \in 1..(Len(before) - Len(after)) |-> before[Len(before) + 1 - i]]

\* the step is a call of eval, of digest
EvalStep == last'.op = "eval" /\ pipeline = "live" /\ fault = "none"
DigestStep == last'.op = "digest" /\ pipeline = "live" /\ fault = "none"

(***************************************************************************)
(* C1: deny path.  A pipeline built with one conditional-dispatch task     *)
(* whose deny follow-up is the terminal-status task: the eval() pass in    *)
(* which its predicate resolves true returns the Active pipeline and       *)
(* is_blocked() is true; after digest of that token with a response of     *)
(* verdict true, is_blocked() is false and the status code is 429.         *)
(***************************************************************************)
C1_Scenario ==
  /\ Len(todos0) = 1
  /\ IsRL(todos0[1])
  /\ todos0[1].deny_task = TooManyRequestsTask

C1_DenyPath ==
  [][C1_Scenario =>
       /\ ((EvalStep /\ issued = <<>> /\ issued' # <<>>)
             => last'.result = "Some" /\ is_blocked')
       /\ ((DigestStep /\ issued # <<>> /\ last'.token = issued[1] /\ last'.verdict)
             => ~is_blocked' /\ ctx'.status_code = Some(429))]_vars

C1_Witness ==
  /\ C1_Scenario
  /\ todos0[1].allow_task = None
  /\ last.op = "digest" /\ last.verdict /\ last.token = 1
  /\ last.followup = Some(TooManyRequestsTask)
  /\ last.ctx.status_code = None
  /\ ctx.status_code = Some(429)
  /\ ~is_blocked

(***************************************************************************)
(* C2: allow path with a deferred header mutation.  A pipeline built with  *)
(* one conditional-dispatch task whose allow follow-up is a                *)
(* mutate-response task (deny: terminal status): digest of its token with  *)
(* a response of verdict false while the phase is RequestHeaders leaves    *)
(* the status unset and the response headers empty and un-blocks the       *)
(* pipeline; every later eval() while the phase is not ResponseHeaders     *)
(* returns Active and leaves the headers empty; the eval() with phase      *)
(* ResponseHeaders applies the header and returns Quiescent.               *)
(***************************************************************************)
C2_Scenario ==
  /\ Len(todos0) = 1
  /\ IsRL(todos0[1])
  /\ todos0[1].allow_task = Some(AddResponseHeadersTask(RateLimitHeaders))
  /\ todos0[1].deny_task = TooManyRequestsTask

\* the allow follow-up has been queued by digest and is waiting for its phase
C2_AllowQueued ==
  /\ resolved = <<1>>
  /\ ctx.status_code = None
  /\ todos = <<AddResponseHeadersTask(RateLimitHeaders)>>

C2_AllowPath ==
  [][C2_Scenario =>
       /\ ((DigestStep /\ last'.token = 1 /\ last'.result # "Panic" /\ ~last'.verdict
             /\ ctx.test_current_phase = Some("RequestHeaders"))
             => /\ ctx'.status_code = None
                /\ ctx'.response_headers = <<>>
                /\ ~is_blocked'
                /\ C2_AllowQueued')
       /\ ((EvalStep /\ C2_AllowQueued /\ ctx.test_current_phase # Some("ResponseHeaders"))
             => /\ last'.result = "Some"
                /\ ctx'.response_headers = <<>>
                /\ C2_AllowQueued')
       /\ ((EvalStep /\ C2_AllowQueued /\ ctx.test_current_phase = Some("ResponseHeaders"))
             => /\ last'.result = "None"
                /\ ctx'.response_headers = RateLimitHeaders)]_vars

C2_Witness ==
  /\ C2_Scenario
  /\ resolved = <<1>>
  /\ last.op = "eval" /\ last.result = "None"
  /\ last.ctx.response_headers = <<>>
  /\ ctx.response_headers = RateLimitHeaders
  /\ ctx.status_code = None
  /\ pipeline = "gone" /\ fault = "none"

(***************************************************************************)
(* C3: phase gating.  The response headers of the context change only in   *)
(* a step taken while the phase is ResponseHeaders; in every other phase   *)
(* (earlier, later or unset) a mutate-response task that is attempted      *)
(* leaves the context as it is and stays in the work queue: an eval() pass *)
(* keeps the queued mutate-response tasks, and a digest() whose follow-up  *)
(* is one appends it to the queue and changes nothing in the context.      *)
(***************************************************************************)
C3_PhaseGating ==
  [][/\ (ctx'.response_headers # ctx.response_headers)
          => (ctx.test_current_phase = Some("ResponseHeaders"))
     /\ ((EvalStep /\ last'.result # "Panic" /\ ctx.test_current_phase # Some("ResponseHeaders"))
          => SelectSeq(todos', IsAddResponseHeaders) = SelectSeq(todos, IsAddResponseHeaders))
     /\ ((DigestStep /\ last'.followup # None
           /\ ctx.test_current_phase # Some("ResponseHeaders"))
          => \/ ~IsAddResponseHeaders(last'.followup[1])
             \/ /\ ctx' = ctx
                /\ todos' = Append(todos, last'.followup[1])
                /\ last'.result = "Pending")]_vars

C3_Witness ==
  /\ last.op = "eval" /\ last.result = "Some"
  /\ ctx.test_current_phase = Some("ResponseBody")
  /\ \E i \in DOMAIN todos : IsAddResponseHeaders(todos[i])
  /\ ctx.response_headers = <<>>
  /\ resolved # <<>>

(***************************************************************************)
(* C4: two conditional-dispatch tasks queued together, one of whose        *)
(* predicates is Pending for several passes before it resolves true        *)
(* (SpecStaggered).  When the pipeline has come to rest both have          *)
(* dispatched, with distinct tokens; a digest of a registered token never  *)
(* faults whatever the state of the other, and it leaves the registry      *)
(* entries of the other tokens and the tasks already queued as they were.  *)
(***************************************************************************)
Quiescent == todos = <<>> /\ DOMAIN pending_tasks = {} /\ fault = "none"

C4_Staggered ==
  [][/\ Quiescent' => (Len(issued') = 2 /\ issued'[1] # issued'[2])
     /\ (DigestStep /\ last'.token \in DOMAIN pending_tasks)
          => /\ fault' = "none"
             /\ \A t \in DOMAIN pending_tasks \ {last'.token} :
                  t \in DOMAIN pending_tasks' /\ pending_tasks'[t] = pending_tasks[t]
             /\ Len(todos') >= Len(todos)
             /\ SubSeq(todos', 1, Len(todos)) = todos]_vars

\* the second task was Pending for two passes or more, and the token issued
\* last was digested first
C4_Witness ==
  /\ Cardinality({i \in DOMAIN preds0 : preds0[i] = "Pending"}) >= 2
  /\ preds0[Len(preds0)] = "Resolved_true"
  /\ ctx.test_predicate_values = <<>>
  /\ issued = <<1, 2>>
  /\ resolved = <<2, 1>>
  /\ last.op = "digest" /\ last.token = 1
  /\ Quiescent

(***************************************************************************)
(* C5: after a completed eval() pass every token issued by a dispatch of   *)
(* that pass is a key of the registry and was issued once; and in every    *)
(* state in which a token that was issued has not been digested,           *)
(* is_blocked() is true.                                                   *)
(***************************************************************************)
Outstanding == Range(issued) \ Range(resolved)

C5_IssuedRegistered ==
  [][/\ (EvalStep /\ last'.result # "Panic")
          => \A i \in (Len(issued) + 1)..Len(issued') :
               /\ issued'[i] \in DOMAIN pending_tasks'
               /\ Cardinality({j \in DOMAIN issued' : issued'[j] = issued'[i]}) = 1
     /\ (Outstanding' # {}) => is_blocked']_vars

\* a pass that issued two tokens, one of which has been digested since
C5_Witness ==
  /\ last.op = "digest" /\ last.result # "Panic"
  /\ issued = <<1, 2>>
  /\ Len(resolved) = 1
  /\ todos0 \in TwoTaskQueues
  /\ Outstanding # {}
  /\ is_blocked

(***************************************************************************)
(* C6: digest(token, response) on a registered token removes exactly that  *)
(* entry from the registry and leaves the others as they were; the         *)
(* registry gains at most one entry, and gains one exactly when the        *)
(* follow-up attempted inside the call returned Deferred; so its size      *)
(* afterwards is the size before, or one less.                             *)
(***************************************************************************)
C6_DigestRegistry ==
  [][(DigestStep /\ last'.token \in DOMAIN pending_tasks)
       => LET before == DOMAIN pending_tasks
              after == DOMAIN pending_tasks'
          IN /\ before \ after = {last'.token}
             /\ Cardinality(after \ before) <= 1
             /\ (after \ before # {}) <=> (last'.result = "Deferred")
             /\ \A t \in before \cap after : pending_tasks'[t] = pending_tasks[t]
             /\ Cardinality(after) \in {Cardinality(before) - 1, Cardinality(before)}]_vars

\* the follow-up of the digested token dispatched a call of its own
C6_Witness ==
  /\ last.op = "digest" /\ last.result = "Deferred" /\ last.token = 1
  /\ resolved = <<1>>
  /\ DOMAIN pending_tasks = {2}

(***************************************************************************)
(* C7, as stated: for a pipeline as it was built, none of whose predicate  *)
(* values is Resolved(true), the first eval() pass returns Quiescent and   *)
(* creates no pending call.                                                *)
(***************************************************************************)
\* the pipeline is as it was built, but for the phase the host has set
Fresh ==
  /\ todos = todos0
  /\ pending_tasks = EmptyMap
  /\ issued = <<>> /\ resolved = <<>>
  /\ ctx = NewCtx(ctx.test_current_phase, preds0)

NeverTrue == "Resolved_true" \notin Range(preds0)

C7_QuiescentFirstPass ==
  [][(EvalStep /\ Fresh /\ NeverTrue /\ last'.result # "Panic")
       => (last'.result = "None" /\ DOMAIN pending_tasks' = {})]_vars

(***************************************************************************)
(* C7, amended: for a pipeline as it was built, none of whose predicate    *)
(* values is Resolved(true), the first eval() pass that completes creates  *)
(* no pending call and issues no token; it returns Quiescent exactly when  *)
(* no task returned Pending in the pass, that is when every predicate it   *)
(* evaluated resolved false and the queue holds no mutate-response task    *)
(* or the phase is ResponseHeaders; otherwise it returns the Active        *)
(* pipeline.                                                               *)
(***************************************************************************)
C7_NoPendingCallFirstPass ==
  [][(EvalStep /\ Fresh /\ NeverTrue /\ last'.result # "Panic")
       => /\ DOMAIN pending_tasks' = {}
          /\ issued' = <<>>
          /\ ctx'.test_token_id = 0
          /\ (last'.result = "None") <=>
               /\ \A v \in Range(Popped(ctx.test_predicate_values,
                                        ctx'.test_predicate_values)) : v = "Resolved_false"
               /\ \/ ctx.test_current_phase = Some("ResponseHeaders")
                  \/ \A i \in DOMAIN todos : ~IsAddResponseHeaders(todos[i])
          /\ (last'.result = "Some") <=> (todos' # <<>>)]_vars

\* a first pass that left a conditional-dispatch task waiting for its predicate
C7_Witness ==
  /\ NeverTrue
  /\ last.op = "eval" /\ last.result = "Some"
  /\ last.ctx = NewCtx(last.ctx.test_current_phase, preds0)
  /\ DOMAIN pending_tasks = {}
  /\ issued = <<>>
  /\ \E i \in DOMAIN todos : IsRL(todos[i])
  /\ Len(todos) < Len(todos0)

(***************************************************************************)
(* C8: idempotence of eval().  On a pipeline with an empty registry whose  *)
(* queue holds only tasks that produce Done, the pass returns Quiescent,   *)
(* and a second pass over what the first one left returns Quiescent again  *)
(* and changes neither the status code, the response headers nor the       *)
(* token counter.                                                          *)
(***************************************************************************)
\* every task of q produces Done: a terminal-status task, a mutate-response
\* task in phase ResponseHeaders, a conditional-dispatch task whose predicate
\* resolves false
RECURSIVE DoneOnly(_, _, _)
DoneOnly(q, preds, phase) ==
  IF q = <<>> THEN TRUE
  ELSE CASE Head(q).kind = "TooManyRequestsTask" -> DoneOnly(Tail(q), preds, phase)
         [] Head(q).kind = "AddResponseHeadersTask" ->
              phase = Some("ResponseHeaders") /\ DoneOnly(Tail(q), preds, phase)
         [] Head(q).kind = "RLTask" ->
              /\ preds # <<>>
              /\ preds[Len(preds)] = "Resolved_false"
              /\ DoneOnly(Tail(q), SubSeq(preds, 1, Len(preds) - 1), phase)

C8_EvalIdempotent ==
  [][(/\ EvalStep
      /\ DOMAIN pending_tasks = {}
      /\ DoneOnly(todos, ctx.test_predicate_values, ctx.test_current_phase))
       => /\ last'.result = "None"
          /\ LET second == EvalPass(ctx', todos', pending_tasks', issued')
             IN /\ second.result = "None"
                /\ second.ctx.status_code = ctx'.status_code
                /\ second.ctx.response_headers = ctx'.response_headers
                /\ second.ctx.test_token_id = ctx'.test_token_id]_vars

\* a pass over a mutate-response task and a conditional-dispatch task whose
\* predicate resolved false
C8_Witness ==
  /\ last.op = "eval" /\ last.result = "None"
  /\ last.ctx = NewCtx(Some("ResponseHeaders"), preds0)
  /\ DoneOnly(todos0, preds0, Some("ResponseHeaders"))
  /\ \E i \in DOMAIN todos0 : IsRL(todos0[i])
  /\ \E i \in DOMAIN todos0 : IsAddResponseHeaders(todos0[i])
  /\ ctx.response_headers = RateLimitHeaders
  /\ ctx.test_predicate_values # preds0

(***************************************************************************)
(* C9: digest(token, ..) with a token that is not in the registry (never   *)
(* issued, or digested before) panics, runs no continuation and changes    *)
(* neither the registry, the work queue nor the context; so no token has   *)
(* its continuation run twice.                                             *)
(***************************************************************************)
C9_UnknownToken ==
  [][/\ (DigestStep /\ last'.token \notin DOMAIN pending_tasks)
          => /\ fault' = "token_not_found"
             /\ last'.followup = None
             /\ UNCHANGED <<pending_tasks, todos, ctx, issued, resolved>>
     /\ \A i, j \in DOMAIN resolved' : resolved'[i] = resolved'[j] => i = j]_vars

\* a second response for a token that has been digested
C9_Witness ==
  /\ fault = "token_not_found"
  /\ last.op = "digest"
  /\ last.token \in Range(resolved)
  /\ last.token \in Range(issued)

(***************************************************************************)
(* C10: token uniqueness.  Every token returned by dispatch is greater     *)
(* than all the tokens issued before it, the keys of the registry are      *)
(* tokens that were issued, and the "Duplicate token_id" panic of eval()   *)
(* and digest() is never reached.                                          *)
(***************************************************************************)
C10_TokensUnique ==
  /\ \A i, j \in DOMAIN issued : i < j => issued[i] < issued[j]
  /\ DOMAIN pending_tasks \subseteq Range(issued)
  /\ fault # "duplicate_token"

\* two registrations alive together
C10_Witness ==
  /\ issued = <<1, 2>>
  /\ DOMAIN pending_tasks = {1, 2}
  /\ last.op = "eval" /\ last.result = "Some"

(***************************************************************************)
(* C11: the result of eval().  A pass that does not panic returns None     *)
(* exactly when, at its end, the work queue and the registry are both      *)
(* empty; otherwise it returns the pipeline, whose queue is the tasks that *)
(* returned Pending in that pass, in the order they were attempted.        *)
(***************************************************************************)
\* the tasks of q that return Pending: a mutate-response task outside
\* ResponseHeaders, a conditional-dispatch task whose predicate is Pending
RECURSIVE PendingOf(_, _, _)
PendingOf(q, preds, phase) ==
  IF q = <<>> THEN <<>>
  ELSE CASE Head(q).kind = "TooManyRequestsTask" -> PendingOf(Tail(q), preds, phase)
         [] Head(q).kind = "AddResponseHeadersTask" ->
              (IF phase = Some("ResponseHeaders") THEN <<>> ELSE <<Head(q)>>)
                \o PendingOf(Tail(q), preds, phase)
         [] Head(q).kind = "RLTask" ->
              IF preds = <<>> THEN <<>>
              ELSE (IF preds[Len(preds)] = "Pending" THEN <<Head(q)>> ELSE <<>>)
                     \o PendingOf(Tail(q), SubSeq(preds, 1, Len(preds) - 1), phase)

C11_EvalResult ==
  [][(EvalStep /\ last'.result # "Panic")
       => /\ last'.result \in {"None", "Some"}
          /\ (last'.result = "None") <=> (todos' = <<>> /\ DOMAIN pending_tasks' = {})
          /\ (last'.result = "None") <=> (pipeline' = "gone")
          /\ todos' = PendingOf(todos, ctx.test_predicate_values, ctx.test_current_phase)]_vars

\* a pass that both requeued a task and left a call outstanding
C11_Witness ==
  /\ last.op = "eval" /\ last.result = "Some"
  /\ todos # <<>>
  /\ DOMAIN pending_tasks # {}
  /\ Len(todos) < Len(last.attempted)

(***************************************************************************)
(* C12: is_blocked().  Every continuation in the registry was registered   *)
(* by a conditional-dispatch task and is blocking, so is_blocked() is true *)
(* exactly when the registry is not empty; it is false once a digest has   *)
(* resolved the last outstanding token without dispatching a new call.     *)
(***************************************************************************)
C12_Blocked ==
  /\ \A t \in DOMAIN pending_tasks : pending_tasks[t].is_blocking = TRUE
  /\ is_blocked <=> (DOMAIN pending_tasks # {})
  /\ (last.op = "digest" /\ Outstanding = {}) => ~is_blocked

\* the digest of the only outstanding token, after which nothing blocks
C12_Witness ==
  /\ last.op = "digest" /\ last.result \in {"NoTask", "Done", "Pending"}
  /\ last.token \in Range(resolved)
  /\ Len(issued) = Len(resolved)
  /\ ~is_blocked

(***************************************************************************)
(* C13: a mutate-response task applied during ResponseHeaders merges its   *)
(* headers into the response headers of the context: the headers recorded  *)
(* before an operation are still recorded after it, and the headers of a   *)
(* task applied by a digest are recorded after it.                         *)
(***************************************************************************)
C13_HeadersMerged ==
  [][/\ Range(ctx.response_headers) \subseteq Range(ctx'.response_headers)
     /\ (/\ DigestStep
         /\ last'.result = "Done"
         /\ IsAddResponseHeaders(last'.followup[1]))
          => Range(last'.followup[1].headers) \subseteq Range(ctx'.response_headers)]_vars

(***************************************************************************)
(* C14: order of attempts.  An eval() pass attempts every task of the      *)
(* queue it started with once, in queue order (up to the task that         *)
(* panicked, if one did), and the tasks that returned Pending are the next *)
(* queue, in the same relative order.  A follow-up that returns Pending in *)
(* digest() is attempted once there and appended at the tail of the live   *)
(* queue, so the next eval() pass attempts it after the tasks that were    *)
(* queued before it.  No other operation attempts a task.                  *)
(***************************************************************************)
IsPrefix(p, q) == Len(p) <= Len(q) /\ p = SubSeq(q, 1, Len(p))

C14_AttemptOrder ==
  [][/\ EvalStep => IsPrefix(last'.attempted, todos)
     /\ (EvalStep /\ last'.result # "Panic")
          => /\ last'.attempted = todos
             /\ todos' = PendingOf(todos, ctx.test_predicate_values, ctx.test_current_phase)
     /\ (DigestStep /\ last'.result = "Pending")
          => /\ last'.attempted = <<last'.followup[1]>>
             /\ todos' = Append(todos, last'.followup[1])
     /\ (DigestStep /\ last'.result # "Pending")
          => /\ Len(last'.attempted) <= 1
             /\ todos' = todos
     /\ last'.op \in {"phase", "drop"}
          => /\ last'.attempted = <<>>
             /\ todos' = todos]_vars

\* a pass over a queue whose tail is a follow-up that digest() appended
C14_Witness ==
  /\ last.op = "eval" /\ last.result # "Panic"
  /\ Len(todos0) = 2 /\ IsRL(todos0[1])
  /\ resolved = <<1>>
  /\ last.attempted = <<todos0[2], todos0[1].deny_task>>

(***************************************************************************)
(* C15: the follow-up of digest().  When the continuation of a registered  *)
(* token resolves to a follow-up task, that task is attempted once, inside *)
(* the same digest() call and against the context of the pipeline, and its *)
(* outcome is routed as in eval(): Done leaves the queue alone and the     *)
(* registry without the digested token, Deferred registers the             *)
(* continuation of the new token, Pending appends the task to the queue.   *)
(* When there is no follow-up the digest only removes the token.           *)
(***************************************************************************)
C15_FollowupRouted ==
  [][(DigestStep /\ last'.token \in DOMAIN pending_tasks)
       => LET rest == MapRemove(pending_tasks, last'.token)
          IN IF last'.followup = None
             THEN /\ last'.attempted = <<>>
                  /\ ctx' = ctx /\ todos' = todos /\ issued' = issued
                  /\ pending_tasks' = rest
             ELSE LET t == last'.followup[1]
                      r == Apply(t, ctx)
                  IN /\ last'.attempted = <<t>>
                     /\ last'.result = r.outcome
                     /\ ctx' = r.ctx
                     /\ r.outcome = "Done"
                          => todos' = todos /\ issued' = issued /\ pending_tasks' = rest
                     /\ r.outcome = "Deferred"
                          => /\ todos' = todos
                             /\ issued' = Append(issued, r.token)
                             /\ r.token \notin DOMAIN pending_tasks
                             /\ DOMAIN pending_tasks' = DOMAIN rest \cup {r.token}
                             /\ pending_tasks'[r.token] = PendingTask(TRUE, t.allow_task, t.deny_task)
                             /\ \A k \in DOMAIN rest : pending_tasks'[k] = rest[k]
                     /\ r.outcome = "Pending"
                          => /\ todos' = Append(todos, t)
                             /\ issued' = issued /\ pending_tasks' = rest
                     /\ r.outcome = "Panic"
                          => fault' = "expected_value" /\ todos' = todos /\ pending_tasks' = rest]_vars

\* a digest whose follow-up dispatched the next call
C15_Witness ==
  /\ last.op = "digest" /\ last.result = "Deferred"
  /\ IsRL(last.followup[1])
  /\ issued = <<1, 2>> /\ resolved = <<1>>
  /\ DOMAIN pending_tasks = {2}

(***************************************************************************)
(* C16: resolution of a continuation.  The digest of a registered token    *)
(* yields the deny follow-up whenever the verdict of the response is true, *)
(* whether or not there is an allow follow-up; the allow follow-up when    *)
(* the verdict is false and there is one; no task when the verdict is      *)
(* false and there is none.                                                *)
(***************************************************************************)
C16_Resolution ==
  [][(DigestStep /\ last'.token \in DOMAIN pending_tasks)
       => LET pt == pending_tasks[last'.token]
          IN /\ last'.verdict => last'.followup = Some(pt.deny_task)
             /\ (~last'.verdict /\ pt.allow_task # None) => last'.followup = pt.allow_task
             /\ (~last'.verdict /\ pt.allow_task = None)
                  => last'.followup = None /\ last'.result = "NoTask"]_vars

\* a verdict of true for a continuation that holds a different allow follow-up
C16_Witness ==
  /\ last.op = "digest" /\ last.token = 1 /\ last.verdict
  /\ Len(todos0) = 1 /\ IsRL(todos0[1])
  /\ todos0[1].allow_task # None
  /\ todos0[1].allow_task # Some(todos0[1].deny_task)
  /\ last.followup = Some(todos0[1].deny_task)

(***************************************************************************)
(* C17: one call for each predicate that resolves true.  In an eval() or a *)
(* digest() the tokens issued, the advance of the token counter and the    *)
(* growth of the registry are the number of predicate values read that     *)
(* were Resolved(true); a value of Resolved(false) or Pending issues none  *)
(* and registers nothing.  In a pass that does not panic every             *)
(* conditional-dispatch task attempted reads one value, and those that     *)
(* read Pending are requeued unchanged.  Over the whole run the number of  *)
(* tokens issued is the number of values read that were Resolved(true).    *)
(***************************************************************************)
CountOf(v, q) == Cardinality({i \in DOMAIN q : q[i] = v})

C17_OneCallPerTrue ==
  [][/\ (EvalStep \/ DigestStep)
          => LET popped == Popped(ctx.test_predicate_values, ctx'.test_predicate_values)
                 trues == CountOf("Resolved_true", popped)
                 removed == IF last'.op = "digest" /\ last'.token \in DOMAIN pending_tasks
                            THEN 1 ELSE 0
                 rls == SelectSeq(last'.attempted, IsRL)
             IN /\ Len(issued') = Len(issued) + trues
                /\ ctx'.test_token_id = ctx.test_token_id + trues
                /\ Cardinality(DOMAIN pending_tasks')
                     = Cardinality(DOMAIN pending_tasks) - removed + trues
                /\ last'.result # "Panic"
                     => /\ Len(popped) = Len(rls)
                        /\ Len(SelectSeq(todos', IsRL))
                             = Len(SelectSeq(todos, IsRL))
                               - (IF last'.op = "eval" THEN Len(rls) ELSE 0)
                               + CountOf("Pending", popped)
                        /\ \A k \in DOMAIN rls : popped[k] = "Pending" => rls[k] \in Range(todos')
     /\ Len(issued') = CountOf("Resolved_true", Popped(preds0, ctx'.test_predicate_values))]_vars

\* one task dispatched and another requeued by the same pass
C17_Witness ==
  /\ last.op = "eval" /\ last.result = "Some"
  /\ Len(preds0) = 2 /\ ctx.test_predicate_values = <<>>
  /\ "Pending" \in Range(preds0)
  /\ Len(issued) = 1
  /\ Len(todos) = 1 /\ IsRL(todos[1]) /\ todos[1] \in Range(todos0)

(***************************************************************************)
(* C18: the terminal-status task.  Attempted in any phase, the unset phase *)
(* included, it sets the status code to 429 and returns Done, changing     *)
(* nothing else of the context.  As the follow-up of a digest it leaves    *)
(* the queue alone and the registry without the digested token; in an      *)
(* eval() pass it is never requeued, and a pass over a queue of such tasks *)
(* alone changes only the status code and empties the queue.               *)
(***************************************************************************)
C18_TerminalStatus ==
  [][/\ \A p \in {None} \cup {Some(q) : q \in Phase} :
          LET c == [ctx EXCEPT !.test_current_phase = p]
              r == Apply(TooManyRequestsTask, c)
          IN /\ r.outcome = "Done"
             /\ r.ctx = [c EXCEPT !.status_code = Some(429)]
             /\ r.pending = None /\ r.task = None
     /\ (/\ DigestStep
         /\ last'.token \in DOMAIN pending_tasks
         /\ last'.followup = Some(TooManyRequestsTask))
          => /\ last'.result = "Done"
             /\ ctx' = [ctx EXCEPT !.status_code = Some(429)]
             /\ todos' = todos /\ issued' = issued
             /\ pending_tasks' = MapRemove(pending_tasks, last'.token)
     /\ (EvalStep /\ TooManyRequestsTask \in Range(last'.attempted))
          => /\ ctx'.status_code = Some(429)
             /\ TooManyRequestsTask \notin Range(todos')
     /\ (EvalStep /\ todos # <<>> /\ Range(todos) = {TooManyRequestsTask})
          => /\ ctx' = [ctx EXCEPT !.status_code = Some(429)]
             /\ todos' = <<>> /\ issued' = issued
             /\ pending_tasks' = pending_tasks]_vars

\* the task run by a digest after response headers were recorded
C18_Witness ==
  /\ last.op = "digest" /\ last.followup = Some(TooManyRequestsTask)
  /\ last.ctx.status_code = None
  /\ last.ctx.response_headers = RateLimitHeaders
  /\ ctx.status_code = Some(429)
  /\ ctx.response_headers = RateLimitHeaders

(***************************************************************************)
(* C19: teardown.  Dropping a pipeline panics exactly when its work queue  *)
(* or its registry is not empty; the pipeline that eval() gives up when it *)
(* returns None has both empty and is dropped without a panic, as is a     *)
(* pipeline dropped after its last digest() emptied the registry with an   *)
(* empty queue.  So a pipeline that is gone without a fault was quiescent. *)
(***************************************************************************)
C19_Teardown ==
  [][/\ (last'.op = "drop" /\ pipeline = "live")
          => /\ pipeline' = "gone"
             /\ (fault' = "dropped_with_pending")
                  <=> (todos # <<>> \/ DOMAIN pending_tasks # {})
             /\ (fault' = "none") <=> (todos = <<>> /\ DOMAIN pending_tasks = {})
     /\ (EvalStep /\ last'.result = "None")
          => /\ pipeline' = "gone" /\ fault' = "none"
             /\ todos' = <<>> /\ DOMAIN pending_tasks' = {}
     /\ fault' = "dropped_with_pending" => last'.op = "drop"
     /\ (pipeline' = "gone" /\ fault' = "none")
          => (todos' = <<>> /\ DOMAIN pending_tasks' = {})]_vars

\* a pipeline dropped without a panic after its last digest
C19_Witness ==
  /\ last.op = "drop" /\ pipeline = "gone" /\ fault = "none"
  /\ issued # <<>>
  /\ Range(issued) = Range(resolved)

(***************************************************************************)
(* C20: eventual quiescence.  With a host that delivers the four phases in *)
(* order with one eval() pass in each and digests every issued token once, *)
(* and predicates that all resolve, the pipeline eventually is quiescent:  *)
(* work queue and registry both empty.                                     *)
(***************************************************************************)
\* the run is outside the claim: a predicate was read that the context held
\* no value for, or a conditional-dispatch task is still waiting for its
\* predicate when the host has finished
PredicateUnresolved ==
  \/ fault = "expected_value"
  \/ pipeline = "gone" /\ \E i \in DOMAIN todos : IsRL(todos[i])

\* the host has nothing left to deliver: the pipeline is gone, or it panicked
HostStopped == pipeline = "gone" \/ fault # "none"

C20_QuiescentAtEnd == HostStopped => (Quiescent \/ PredicateUnresolved)

(***************************************************************************)
(* C20, amended: the host's run ends, since every step of it lowers a      *)
(* measure that is never negative, and at its end the pipeline is gone,    *)
(* every issued token has been digested and the registry is empty.  The    *)
(* tasks left in the queue then, if any, are mutate-response tasks first   *)
(* attempted after the ResponseHeaders pass; the teardown panics exactly   *)
(* when there are some, and the pipeline is quiescent when there are none. *)
(***************************************************************************)
C20_Settled ==
  /\ pipeline = "gone"
  /\ DOMAIN pending_tasks = {}
  /\ Range(issued) = Range(resolved)
  /\ \A i \in DOMAIN todos : IsAddResponseHeaders(todos[i])
  /\ todos # <<>> => ctx.test_current_phase = Some("ResponseBody")
  /\ (fault = "none") <=> (todos = <<>>)
  /\ (fault = "dropped_with_pending") <=> (todos # <<>>)

\* what the host and the pipeline have left to do
HostMeasure ==
  2 * (PhaseOrd(Some("ResponseBody")) - PhaseOrd(ctx.test_current_phase))
  + (IF EvalDue THEN 1 ELSE 0)
  + 2 * Len(ctx.test_predicate_values)
  + Cardinality(DOMAIN pending_tasks)
  + (IF pipeline = "live" THEN 1 ELSE 0)

C20_SettledAtEnd ==
  [][/\ HostMeasure' < HostMeasure
     /\ HostMeasure' >= 0
     /\ HostStopped' => (C20_Settled' \/ PredicateUnresolved')]_vars

\* the host has finished and the mutate-response follow-up of a call that
\* could only be dispatched by the ResponseBody pass is left in the queue
C20_Witness ==
  /\ C20_Settled
  /\ last.op = "drop"
  /\ todos0 = <<RLTask(None, AddResponseHeadersTask(RateLimitHeaders))>>
  /\ preds0 = <<"Resolved_true", "Pending", "Pending", "Pending">>
  /\ resolved = <<1>>
  /\ todos = <<AddResponseHeadersTask(RateLimitHeaders)>>
====
